---- MODULE Spec2Model ----
(***************************************************************************)
(* Model of jadio_feeder/podcast.py: PodcastRssFeedGenCreator.create and   *)
(* the helpers it calls (PodcastItem.from_program, Enclosure.from_path,    *)
(* _media_path_to_duration, _path_to_enclosure_type,                       *)
(* PodcastChannel.from_program).                                           *)
(*                                                                         *)
(* One call of create is one behaviour: Init is the state at entry (the    *)
(* arguments and the media directories on disk), and the actions are the   *)
(* steps of the body in program order.                                     *)
(***************************************************************************)
EXTENDS Integers, Sequences, FiniteSets, TLC

VARIABLES
    pc,                    \* position in create
    arg_pairs,             \* program_and_id_pairs as passed by the caller
    arg_sort_by,           \* sort_by as passed by the caller
    sorted_pairs,          \* the list bound at 298, before 321 re-binds it
    program_and_id_pairs,  \* the local of that name (re-bound at 298 and 321)
    sort_by,               \* the sort_by argument / local (re-bound at 289-297)
    from_oldest,           \* argument
    remove_duplicates,     \* argument
    channel,               \* the channel argument / local (re-bound at 326)
    media_files,           \* disk: program_id -> suffix of its media.* file
    feed_entries,          \* entries of feed_generator, in document order
    idx,                   \* position of the loop at 330
    error,                 \* exception that left create, NoError if none
    returned               \* TRUE once create has returned feed_generator

args == <<arg_pairs, arg_sort_by, from_oldest, remove_duplicates, media_files>>

vars == <<pc, args, sorted_pairs, program_and_id_pairs, sort_by, channel,
          feed_entries, idx, error, returned>>

----------------------------------------------------------------------------
(* Bounds of the model *)

MaxLen == 3        \* longest list of pairs passed to create
MaxTime == 2       \* datetimes are None or 1..MaxTime
MaxEpisode == 2    \* episode ids are None or 1..MaxEpisode
MaxKeyLen == 3     \* longest list in the sort-key specification
MaxMediaLen == 2   \* longest list in the media specification
MaxAirings == 3    \* datetimes are 1..MaxAirings where every field is set

----------------------------------------------------------------------------
(* Values *)

\* Python's None for the integer-valued fields (datetime, episode_id, duration)
None == 0

NoSortBy == "None"          \* sort_by left unset
NoError == "none"
NoMedia == "no media.*"     \* directory missing, or holding no media.* file

AllowList == {"onsen.ag", "hibiki-radio.jp"}
Stations == AllowList \cup {"TBS", "QRR"}
AvailableSortBy == {"datetime", "episode_id"}
DurationSuffixes == {".mp3", ".m4a", ".mp4"}
EnclosureSuffixes == {".mp3", ".m4a", ".mp4", ".mov"}
Suffixes == EnclosureSuffixes \cup {".txt"}

PlatformOf(station_id) ==
    IF station_id \in AllowList THEN station_id ELSE "radiko.jp"

\* jadio.Program, the fields the module reads
Program(station_id, datetime, episode_id, duration, is_video, description) ==
    [station_id |-> station_id, platform_id |-> PlatformOf(station_id),
     datetime |-> datetime, episode_id |-> episode_id,
     duration |-> duration, is_video |-> is_video,
     description |-> description]

Reverse(s) == [i \in 1..Len(s) |-> s[Len(s) + 1 - i]]

Digits == <<"0", "1", "2", "3", "4", "5", "6", "7", "8", "9">>

RECURSIVE DecimalStr(_)
DecimalStr(n) ==
    IF n < 10 THEN <<Digits[n + 1]>>
    ELSE DecimalStr(n \div 10) \o <<Digits[(n % 10) + 1]>>

\* str(x) of an optional integer
Str(x) == IF x = None THEN <<"N", "o", "n", "e">> ELSE DecimalStr(x)

----------------------------------------------------------------------------
(* create, lines 280-297: choice of the sort key *)

StationIds(pairs) == {pairs[i][1].station_id : i \in 1..Len(pairs)}

DefaultSortByIgnoringMix(pairs) ==
    IF pairs[1][1].station_id \in AllowList THEN "episode_id" ELSE "datetime"

DefaultSortBy(pairs) ==
    IF Cardinality(StationIds(pairs)) > 1 THEN "datetime"
    ELSE IF pairs[1][1].station_id \in AllowList THEN "episode_id"
    ELSE "datetime"

SelectSortBy ==
    /\ pc = "select"
    /\ IF sort_by # NoSortBy
       THEN IF sort_by \notin AvailableSortBy
            THEN /\ error' = "ValueError"
                 /\ pc' = "failed"
                 /\ UNCHANGED sort_by
            ELSE /\ pc' = "sort"
                 /\ UNCHANGED <<sort_by, error>>
       ELSE /\ sort_by' = DefaultSortBy(program_and_id_pairs)
            /\ pc' = "sort"
            /\ UNCHANGED error
    /\ UNCHANGED <<args, sorted_pairs, program_and_id_pairs, channel,
                   feed_entries, idx, returned>>

----------------------------------------------------------------------------
(* create, lines 298-302: sorted(pairs, key=..., reverse=not from_oldest) *)

\* getattr(x[0], sort_by)
SortKey(pair, key) ==
    IF key = "datetime" THEN pair[1].datetime ELSE pair[1].episode_id

\* x goes after every element that is not greater than it
RECURSIVE InsertStable(_, _, _)
InsertStable(x, s, key) ==
    IF s = <<>> THEN <<x>>
    ELSE IF SortKey(x, key) < SortKey(s[1], key) THEN <<x>> \o s
    ELSE <<s[1]>> \o InsertStable(x, Tail(s), key)

RECURSIVE StableSort(_, _)
StableSort(s, key) ==
    IF s = <<>> THEN <<>>
    ELSE InsertStable(s[Len(s)], StableSort(SubSeq(s, 1, Len(s) - 1), key), key)

SortedReversingResult(s, key, reverse) ==
    IF reverse THEN Reverse(StableSort(s, key)) ELSE StableSort(s, key)

\* list.sort keeps equal elements in input order in both directions:
\* with reverse it reverses the list, sorts, and reverses the result
Sorted(s, key, reverse) ==
    IF reverse THEN Reverse(StableSort(Reverse(s), key))
    ELSE StableSort(s, key)

\* None is not orderable: any comparison with it raises TypeError, and
\* sorting two or more elements compares every element at least once
SortRaises(s, key) ==
    /\ Len(s) >= 2
    /\ \E i \in 1..Len(s) : SortKey(s[i], key) = None

Sort ==
    /\ pc = "sort"
    /\ IF SortRaises(program_and_id_pairs, sort_by)
       THEN /\ error' = "TypeError"
            /\ pc' = "failed"
            /\ UNCHANGED <<program_and_id_pairs, sorted_pairs>>
       ELSE /\ program_and_id_pairs' =
                  Sorted(program_and_id_pairs, sort_by, ~from_oldest)
            /\ sorted_pairs' = program_and_id_pairs'
            /\ pc' = "dedup"
            /\ UNCHANGED error
    /\ UNCHANGED <<args, sort_by, channel, feed_entries, idx, returned>>

----------------------------------------------------------------------------
(* create, lines 304-321: removal of duplicates *)

KeepPairByDatetimeOnly(prev_datetime, prev_episode_id, program) ==
    prev_datetime # program.datetime

\* the test at 309-312
KeepPair(prev_datetime, prev_episode_id, program) ==
    /\ prev_datetime # program.datetime
    /\ prev_episode_id # program.episode_id

\* the loop at 308-315, from position i on
RECURSIVE UniqueFrom(_, _, _, _, _)
UniqueFrom(pairs, i, prev_datetime, prev_episode_id, unique_pairs) ==
    IF i > Len(pairs) THEN unique_pairs
    ELSE LET program == pairs[i][1] IN
         UniqueFrom(pairs, i + 1, program.datetime, program.episode_id,
                    IF KeepPair(prev_datetime, prev_episode_id, program)
                    THEN Append(unique_pairs, pairs[i])
                    ELSE unique_pairs)

UniquePairs(pairs) == UniqueFrom(pairs, 1, None, None, <<>>)

RemoveDuplicates ==
    /\ pc = "dedup"
    /\ program_and_id_pairs' =
           IF remove_duplicates THEN UniquePairs(program_and_id_pairs)
           ELSE program_and_id_pairs
    /\ pc' = "channel"
    /\ UNCHANGED <<args, sorted_pairs, sort_by, channel, feed_entries, idx,
                   error, returned>>

----------------------------------------------------------------------------
(* create, lines 324-329: the channel *)

NoChannel == [source |-> "unset", description |-> None, itunes_author |-> ""]

\* a PodcastChannel passed by the caller
GivenChannel == [source |-> "given", description |-> None, itunes_author |-> ""]

\* PodcastChannel.from_program
ChannelFromProgram(program) ==
    [source |-> "derived", description |-> program.description,
     itunes_author |-> program.station_id]

LatestIndexAlwaysFirst(oldest_first, n) == 1

\* the index -1 if from_oldest else 0, as a position in a list of n
LatestIndex(oldest_first, n) == IF oldest_first THEN n ELSE 1

CreateChannel ==
    /\ pc = "channel"
    /\ IF channel = NoChannel
       THEN IF program_and_id_pairs = <<>>
            THEN /\ error' = "IndexError"
                 /\ pc' = "failed"
                 /\ UNCHANGED <<channel, idx>>
            ELSE /\ channel' = ChannelFromProgram(
                       program_and_id_pairs[
                           LatestIndex(from_oldest,
                                       Len(program_and_id_pairs))][1])
                 /\ pc' = "items"
                 /\ idx' = 1
                 /\ UNCHANGED error
       ELSE /\ pc' = "items"
            /\ idx' = 1
            /\ UNCHANGED <<channel, error>>
    /\ UNCHANGED <<args, sorted_pairs, program_and_id_pairs, sort_by,
                   feed_entries, returned>>

----------------------------------------------------------------------------
(* PodcastItem.from_program and what it calls *)

\* media_root/platform_id/station_id/str(program_id)
MediaDir(program, program_id) ==
    <<program.platform_id, program.station_id, Str(program_id)>>

\* _media_path_to_duration: the exception it raises for a file that exists
DurationError(suffix) ==
    IF suffix \in DurationSuffixes THEN NoError ELSE "ValueError"

\* media.info.length of the file, as mutagen reports it
FileDuration == 7

\* _path_to_enclosure_type
EnclosureType(suffix, is_video) ==
    IF suffix = ".mp3" THEN "audio/mpeg"
    ELSE IF suffix = ".m4a" THEN "audio/x-m4a"
    ELSE IF suffix = ".mp4"
         THEN (IF is_video THEN "video/mp4" ELSE "audio/x-m4a")
    ELSE IF suffix = ".mov" THEN "video/quicktime"
    ELSE "ValueError"

ItemGuidFromProgramId(program, program_id) == Str(program_id)

\* line 167
ItemGuid(program, program_id) == Str(program.episode_id)

\* the exception from_program raises, NoError if it returns an item
FromProgramError(program, program_id, files) ==
    LET suffix == files[program_id] IN
    IF suffix = NoMedia THEN "IndexError"
    ELSE IF program.duration = None /\ DurationError(suffix) # NoError
         THEN DurationError(suffix)
    ELSE IF EnclosureType(suffix, program.is_video) = "ValueError"
         THEN "ValueError"
    ELSE NoError

\* the item from_program returns when it raises nothing
FromProgram(program, program_id, files) ==
    LET suffix == files[program_id] IN
    [enclosure |-> [path |-> Append(MediaDir(program, program_id),
                                    "media" \o suffix),
                    type |-> EnclosureType(suffix, program.is_video)],
     guid |-> ItemGuid(program, program_id),
     pub_date |-> program.datetime,
     description |-> program.description,
     itunes_duration |-> IF program.duration # None THEN program.duration
                         ELSE FileDuration]

----------------------------------------------------------------------------
(* create, lines 330-341: the items *)

\* one iteration of the loop at 330
AddEntry ==
    /\ pc = "items"
    /\ idx <= Len(program_and_id_pairs)
    /\ LET program == program_and_id_pairs[idx][1]
           program_id == program_and_id_pairs[idx][2]
           err == FromProgramError(program, program_id, media_files)
       IN IF err # NoError
          THEN /\ error' = err
               /\ pc' = "failed"
               /\ UNCHANGED <<feed_entries, idx>>
          ELSE /\ feed_entries' =
                     Append(feed_entries,
                            FromProgram(program, program_id, media_files))
               /\ idx' = idx + 1
               /\ UNCHANGED <<pc, error>>
    /\ UNCHANGED <<args, sorted_pairs, program_and_id_pairs, sort_by, channel,
                   returned>>

Return ==
    /\ pc = "items"
    /\ idx > Len(program_and_id_pairs)
    /\ pc' = "done"
    /\ returned' = TRUE
    /\ UNCHANGED <<args, sorted_pairs, program_and_id_pairs, sort_by, channel,
                   feed_entries, idx, error>>

Next ==
    \/ SelectSortBy
    \/ Sort
    \/ RemoveDuplicates
    \/ CreateChannel
    \/ AddEntry
    \/ Return

----------------------------------------------------------------------------
(* Calls of create *)

Optional(n) == {None} \cup (1..n)

Programs(stations, datetimes, episode_ids, durations, videos) ==
    {Program(s, d, e, l, v, None) :
        s \in stations, d \in datetimes, e \in episode_ids,
        l \in durations, v \in videos}

\* pair i of the list: its identifier is its position, and so is its
\* description; with numbered, its datetime and episode id are too
PairAt(program, i, numbered) ==
    <<IF numbered
      THEN [program EXCEPT !.description = i, !.datetime = i, !.episode_id = i]
      ELSE [program EXCEPT !.description = i],
      i>>

Entry(lens, programs, numbered, sortBys, channels, files) ==
    /\ pc = "select"
    /\ \E n \in lens : \E ps \in [1..n -> programs] :
           /\ arg_pairs = [i \in 1..n |-> PairAt(ps[i], i, numbered)]
           /\ media_files \in [1..n -> files]
    /\ program_and_id_pairs = arg_pairs
    /\ sorted_pairs = <<>>
    /\ arg_sort_by \in sortBys
    /\ sort_by = arg_sort_by
    /\ from_oldest \in BOOLEAN
    /\ remove_duplicates \in BOOLEAN
    /\ channel \in channels
    /\ feed_entries = <<>>
    /\ idx = 0
    /\ error = NoError
    /\ returned = FALSE

\* one station, every datetime and episode id, every media file in place
Init ==
    Entry(1..MaxLen,
          Programs({"TBS"}, Optional(MaxTime), Optional(MaxEpisode),
                   {None}, {FALSE}),
          FALSE, AvailableSortBy, {NoChannel}, {".mp3"})

Spec == Init /\ [][Next]_vars

\* one station, every field set, one more datetime than list positions need
InitSet ==
    Entry(1..MaxLen,
          Programs({"TBS"}, 1..MaxAirings, 1..MaxEpisode, {None}, {FALSE}),
          FALSE, AvailableSortBy, {NoChannel}, {".mp3"})

SpecSet == InitSet /\ [][Next]_vars

\* every mix of stations and every sort_by; fields set and distinct
InitKey ==
    Entry(1..MaxKeyLen, Programs(Stations, {None}, {None}, {None}, {FALSE}),
          TRUE, AvailableSortBy \cup {NoSortBy, "title"},
          {NoChannel, GivenChannel}, {".mp3"})

SpecKey == InitKey /\ [][Next]_vars

\* every media directory content, duration set or not; fields set and distinct
InitMedia ==
    Entry(1..MaxMediaLen,
          Programs({"TBS"}, {None}, {None}, {None, 5}, BOOLEAN),
          TRUE, {NoSortBy}, {NoChannel}, Suffixes \cup {NoMedia})

SpecMedia == InitMedia /\ [][Next]_vars

----------------------------------------------------------------------------
(* Properties *)

Range(s) == {s[i] : i \in 1..Len(s)}

\* the feed create hands back: nothing unless it returned
Output == IF returned THEN feed_entries ELSE <<>>

\* create failed in the loop at 330, on the pair at idx
FailedOnItem == pc = "failed" /\ idx >= 1

FailedPair == program_and_id_pairs[idx]

\* every record passed to create has its datetime and its episode id set
FieldsSet ==
    \A i \in 1..Len(arg_pairs) :
        arg_pairs[i][1].datetime # None /\ arg_pairs[i][1].episode_id # None

\* C1: with sort_by unset and a non-empty list, the sort key is "datetime"
\* when the pairs span two or more station ids; otherwise "episode_id" when
\* the one station id is "onsen.ag" or "hibiki-radio.jp", else "datetime".
C1_DefaultSortKey ==
    (pc # "select" /\ arg_sort_by = NoSortBy /\ arg_pairs # <<>>) =>
        LET mixed == \E i, j \in 1..Len(arg_pairs) :
                         arg_pairs[i][1].station_id # arg_pairs[j][1].station_id
            station == arg_pairs[1][1].station_id
        IN sort_by = IF mixed THEN "datetime"
                     ELSE IF station = "onsen.ag" \/ station = "hibiki-radio.jp"
                          THEN "episode_id"
                     ELSE "datetime"

\* two stations, both in the allow-list, and the key is "datetime"
C1_Witness ==
    /\ pc = "sort"
    /\ arg_sort_by = NoSortBy
    /\ sort_by = "datetime"
    /\ Len(arg_pairs) >= 2
    /\ \A i \in 1..Len(arg_pairs) : arg_pairs[i][1].station_id \in AllowList
    /\ arg_pairs[1][1].station_id # arg_pairs[2][1].station_id

\* C2: the duplicate-removal pass, applied to the list it has produced,
\* removes nothing: dedup(dedup(s)) = dedup(s). Stated for records whose
\* datetime and episode id are set.
C2_DedupIdempotent ==
    (pc = "channel" /\ remove_duplicates /\ FieldsSet) =>
        UniquePairs(program_and_id_pairs) = program_and_id_pairs

\* C3: with remove_duplicates, a pair of the sorted list is suppressed only
\* if it has a predecessor in the sorted list and shares its datetime or its
\* episode id with that predecessor; the first pair is never suppressed.
C3_SuppressedOnlyIfRepeats ==
    (pc = "channel" /\ remove_duplicates) =>
        \A k \in 1..Len(sorted_pairs) :
            sorted_pairs[k] \notin Range(program_and_id_pairs) =>
                /\ k > 1
                /\ \/ sorted_pairs[k][1].datetime =
                          sorted_pairs[k - 1][1].datetime
                   \/ sorted_pairs[k][1].episode_id =
                          sorted_pairs[k - 1][1].episode_id

\* C4: with remove_duplicates, for either sort key, no two consecutive items
\* of the feed share a datetime. Stated for records whose datetime and
\* episode id are set.
C4_NoConsecutiveSameDatetime ==
    (pc = "done" /\ remove_duplicates /\ FieldsSet) =>
        \A i \in 1..(Len(Output) - 1) :
            Output[i].pub_date # Output[i + 1].pub_date

\* C5 as claimed: the guid of every item is the string form of the pair's
\* identifier, so items of pairs with different identifiers differ in guid.
C5_GuidIsIdentifier ==
    pc = "items" =>
        /\ \A i \in 1..Len(feed_entries) :
               feed_entries[i].guid = Str(program_and_id_pairs[i][2])
        /\ \A i, j \in 1..Len(feed_entries) :
               program_and_id_pairs[i][2] # program_and_id_pairs[j][2] =>
                   feed_entries[i].guid # feed_entries[j].guid

\* C5 as amended: the guid of every item is the string form of the record's
\* episode_id field, whatever the pair's identifier; two items have the same
\* guid exactly when their records have the same episode_id.
C5_GuidIsEpisodeId ==
    pc = "items" =>
        /\ \A i \in 1..Len(feed_entries) :
               feed_entries[i].guid = Str(program_and_id_pairs[i][1].episode_id)
        /\ \A i, j \in 1..Len(feed_entries) :
               (feed_entries[i].guid = feed_entries[j].guid) <=>
                   (program_and_id_pairs[i][1].episode_id =
                        program_and_id_pairs[j][1].episode_id)

\* two items of pairs with one episode_id and different identifiers
C5_Witness ==
    /\ pc = "items"
    /\ Len(feed_entries) >= 2
    /\ program_and_id_pairs[1][1].episode_id =
           program_and_id_pairs[2][1].episode_id
    /\ program_and_id_pairs[1][2] # program_and_id_pairs[2][2]
    /\ feed_entries[1].guid = feed_entries[2].guid
    /\ feed_entries[1].guid # Str(program_and_id_pairs[1][2])

\* C6 as claimed: in a returned feed built with remove_duplicates, no two
\* items have one guid and different media paths. Stated for records whose
\* datetime and episode id are set and feeds that lost no pair as duplicate.
C6_GuidSharedOnlyBySamePath ==
    (/\ pc = "done"
     /\ remove_duplicates
     /\ FieldsSet
     /\ Len(Output) = Len(arg_pairs)) =>
        \A i, j \in 1..Len(Output) :
            Output[i].guid = Output[j].guid =>
                Output[i].enclosure.path = Output[j].enclosure.path

\* C6 as amended: in a returned feed built with remove_duplicates and the
\* sort key "episode_id", no two items have the same guid.
C6_GuidUniqueByEpisodeOrder ==
    (pc = "done" /\ remove_duplicates /\ sort_by = "episode_id") =>
        \A i, j \in 1..Len(Output) :
            i # j => Output[i].guid # Output[j].guid

\* a feed sorted by episode_id that lost a pair sharing its episode id
\* with its predecessor and nothing else
C6_Witness ==
    /\ pc = "done"
    /\ remove_duplicates
    /\ sort_by = "episode_id"
    /\ Len(Output) >= 2
    /\ \E k \in 2..Len(sorted_pairs) :
           /\ sorted_pairs[k] \notin Range(program_and_id_pairs)
           /\ sorted_pairs[k][1].episode_id = sorted_pairs[k - 1][1].episode_id
           /\ sorted_pairs[k][1].datetime # sorted_pairs[k - 1][1].datetime

\* C7 as claimed: without a channel override the channel comes from the last
\* record of the sorted list if from_oldest, else from its first record,
\* whatever remove_duplicates is. Stated for records whose datetime and
\* episode id are set.
C7_ChannelFromSortedEnd ==
    (pc \in {"items", "done"} /\ channel.source = "derived" /\ FieldsSet) =>
        channel = ChannelFromProgram(
                      sorted_pairs[IF from_oldest THEN Len(sorted_pairs)
                                   ELSE 1][1])

\* C7 as amended: without a channel override the channel comes from the last
\* record that survives duplicate removal if from_oldest, else from the
\* first that survives (the sorted list itself when remove_duplicates is
\* false); when no record survives, create fails with IndexError instead.
C7_ChannelFromSurvivingEnd ==
    LET survivors == IF remove_duplicates
                     THEN SelectSeq(sorted_pairs, LAMBDA x :
                                        x \in Range(program_and_id_pairs))
                     ELSE sorted_pairs
    IN /\ (pc \in {"items", "done"} /\ channel.source = "derived") =>
              /\ survivors # <<>>
              /\ channel.description =
                     survivors[IF from_oldest THEN Len(survivors)
                               ELSE 1][1].description
              /\ channel.itunes_author =
                     survivors[IF from_oldest THEN Len(survivors)
                               ELSE 1][1].station_id
       /\ (pc = "failed" /\ error = "IndexError" /\ idx = 0) =>
              /\ program_and_id_pairs = <<>>
              /\ channel = NoChannel

\* from_oldest, and the last record of the sorted list was suppressed
C7_Witness ==
    /\ pc = "items"
    /\ channel.source = "derived"
    /\ from_oldest
    /\ remove_duplicates
    /\ Len(program_and_id_pairs) >= 2
    /\ sorted_pairs[Len(sorted_pairs)] \notin Range(program_and_id_pairs)
    /\ channel.description # sorted_pairs[Len(sorted_pairs)][1].description

\* C8: if the media directory of a surviving pair is missing or holds no
\* media.* file, create fails with a NotFound error (FileNotFoundError),
\* returns no feed, and maps no pair after the failing one.
C8_MissingMediaIsNotFound ==
    /\ (FailedOnItem /\ media_files[FailedPair[2]] = NoMedia) =>
           /\ error = "FileNotFoundError"
           /\ ~returned
           /\ Output = <<>>
           /\ Len(feed_entries) = idx - 1
    /\ pc = "done" =>
           \A i \in 1..Len(program_and_id_pairs) :
               media_files[program_and_id_pairs[i][2]] # NoMedia

\* C9: when create succeeds, the items are, in document order, the surviving
\* pairs, each once, in stable sorted order by the key: ascending when
\* from_oldest and descending otherwise, equal keys in input order.
C9_FeedInStableSortedOrder ==
    pc = "done" =>
        LET Key(i) == SortKey(program_and_id_pairs[i], sort_by)
            Position(i) ==
                CHOOSE k \in 1..Len(arg_pairs) :
                    arg_pairs[k] = program_and_id_pairs[i]
        IN /\ Len(Output) = Len(program_and_id_pairs)
           /\ Range(program_and_id_pairs) \subseteq Range(arg_pairs)
           /\ ~remove_duplicates =>
                  Len(program_and_id_pairs) = Len(arg_pairs)
           /\ \A i \in 1..Len(Output) :
                  /\ Output[i].description =
                         program_and_id_pairs[i][1].description
                  /\ Output[i].enclosure.path[3] =
                         Str(program_and_id_pairs[i][2])
           /\ \A i, j \in 1..Len(Output) :
                  i < j =>
                      \/ IF from_oldest THEN Key(i) < Key(j)
                         ELSE Key(i) > Key(j)
                      \/ Key(i) = Key(j) /\ Position(i) < Position(j)

\* newest first, with two pairs of one key kept in their input order
C9_Witness ==
    /\ pc = "done"
    /\ ~from_oldest
    /\ Len(Output) = 3
    /\ Output[1].pub_date > Output[2].pub_date
    /\ Output[2].pub_date = Output[3].pub_date
    /\ sort_by = "datetime"

\* C10: an episode whose media file has a suffix in {mp3, m4a, mp4, mov} is
\* mapped to an item with a duration and an enclosure type, with or without
\* a precomputed duration (the duration lookup accepting every suffix the
\* enclosure type lookup accepts).
C10_SupportedSuffixesMapped ==
    LET supported == {".mp3", ".m4a", ".mp4", ".mov"} IN
    /\ FailedOnItem => media_files[FailedPair[2]] \notin supported
    /\ \A i \in 1..Len(feed_entries) :
           /\ feed_entries[i].itunes_duration # None
           /\ feed_entries[i].enclosure.type # "ValueError"

====
